---- MODULE Spec2Model ----
(***************************************************************************)
(* Model of the coaching-leads backend (src/main.py, src/schemas.py):      *)
(* the lead store, the create_coaching / update_status / add_note          *)
(* endpoints and the crawl pipeline (_ddg_search_urls,                     *)
(* _extract_basic_page_info, crawl_and_ingest).                            *)
(*                                                                         *)
(* Python strings are sequences of one-character strings, so slicing,      *)
(* lower(), title(), substring tests, urlparse().netloc and the store's    *)
(* $regex matching are computed character by character.                    *)
(***************************************************************************)
EXTENDS Integers, Sequences, FiniteSets, TLC

(***************************************************************************)
(* Bounds of the model.                                                    *)
(***************************************************************************)
MaxAnchors == 3      \* anchors on a generated search result page
MaxLimit == 3        \* largest limit a request carries
MaxApiOps == 2       \* CRUD requests interleaved with the crawls
MaxFaults == 1       \* transport / store faults injected in one behaviour

(***************************************************************************)
(* Program constants.                                                      *)
(***************************************************************************)
NameMax == 120       \* title[:120], og:title[:120], key[:120]
DescMax == 300       \* description[:300]
QueryCap == 5        \* base_terms[:5]
MinSearch == 5       \* max(5, limit // 2)

\* Python's None, told apart from every string of one-character elements
None == <<"None">>

\* None in a field that otherwise holds a number: {} for None, {n} for n
NoInt == {}

(***************************************************************************)
(* Strings.                                                                *)
(***************************************************************************)
Rep(c, n) == [i \in 1..n |-> c]

Take(s, n) == IF n <= 0 THEN <<>> ELSE SubSeq(s, 1, IF Len(s) < n THEN Len(s) ELSE n)

Drop(s, n) == IF n >= Len(s) THEN <<>> ELSE SubSeq(s, n + 1, Len(s))

UpperLetters == <<"A","B","C","D","E","F","G","H","I","J","K","L","M",
                  "N","O","P","Q","R","S","T","U","V","W","X","Y","Z">>

LowerLetters == <<"a","b","c","d","e","f","g","h","i","j","k","l","m",
                  "n","o","p","q","r","s","t","u","v","w","x","y","z">>

IsUpper(c) == \E i \in 1..26 : UpperLetters[i] = c

IsLower(c) == \E i \in 1..26 : LowerLetters[i] = c

IsLetter(c) == IsUpper(c) \/ IsLower(c)

LowerChar(c) == IF IsUpper(c) THEN LowerLetters[CHOOSE i \in 1..26 : UpperLetters[i] = c] ELSE c

UpperChar(c) == IF IsLower(c) THEN UpperLetters[CHOOSE i \in 1..26 : LowerLetters[i] = c] ELSE c

\* str.lower()
Lower(s) == [i \in 1..Len(s) |-> LowerChar(s[i])]

\* str.title(): a letter that follows a non-letter is upper-cased, any other lower-cased
Title(s) == [i \in 1..Len(s) |->
               IF i = 1 \/ ~IsLetter(s[i - 1]) THEN UpperChar(s[i]) ELSE LowerChar(s[i])]

\* s.startswith(pre)
StartsWith(s, pre) == Len(s) >= Len(pre) /\ SubSeq(s, 1, Len(pre)) = pre

\* sub in s
Contains(s, sub) == \E i \in 0..(Len(s) - Len(sub)) : SubSeq(s, i + 1, i + Len(sub)) = sub

RECURSIVE LStrip(_)
LStrip(s) == IF s # <<>> /\ Head(s) = " " THEN LStrip(Tail(s)) ELSE s

RECURSIVE RStrip(_)
RStrip(s) == IF s # <<>> /\ s[Len(s)] = " " THEN RStrip(SubSeq(s, 1, Len(s) - 1)) ELSE s

\* str.strip()
Strip(s) == RStrip(LStrip(s))

\* s.replace(old, '') : every non-overlapping occurrence, left to right
RECURSIVE Remove(_, _)
Remove(s, old) ==
  IF s = <<>> THEN <<>>
  ELSE IF StartsWith(s, old) THEN Remove(Drop(s, Len(old)), old)
  ELSE <<Head(s)>> \o Remove(Tail(s), old)

\* s.split('.')[0]
RECURSIVE FirstLabel(_)
FirstLabel(s) ==
  IF s = <<>> \/ Head(s) = "." THEN <<>> ELSE <<Head(s)>> \o FirstLabel(Tail(s))

\* the characters of s before the first of '/', '?', '#'
RECURSIVE UntilDelim(_)
UntilDelim(s) ==
  IF s = <<>> \/ Head(s) \in {"/", "?", "#"} THEN <<>> ELSE <<Head(s)>> \o UntilDelim(Tail(s))

\* urlparse(l).netloc : what follows "<scheme>://" up to the next '/', '?' or '#'
Netloc(l) ==
  IF \E i \in 1..Len(l) : l[i] = ":"
  THEN LET i == CHOOSE k \in 1..Len(l) : l[k] = ":" /\ \A j \in 1..(k - 1) : l[j] # ":"
           rest == Drop(l, i)
       IN IF StartsWith(rest, <<"/", "/">>) THEN UntilDelim(Drop(rest, 2)) ELSE <<>>
  ELSE <<>>

Truthy(v) == v # None /\ v # <<>>

\* a or b
Or(a, b) == IF Truthy(a) THEN a ELSE b

(***************************************************************************)
(* Search Provider: _ddg_search_urls.                                      *)
(* A response is [ok |-> FALSE] (requests.get or raise_for_status raised)  *)
(* or [ok |-> TRUE, page |-> the <a> elements in document order], each     *)
(* [cls |-> it carries class result__a, href |-> its href or None].        *)
(***************************************************************************)
HTTP == <<"h", "t", "t", "p">>

\* href and href.startswith('http')
HrefOk(a) == Truthy(a.href) /\ StartsWith(a.href, HTTP)

IsResultAnchor(a) == a.cls

\* for a in <anchors>: append the href if it qualifies; break once len(links) >= limit
RECURSIVE ScanLinks(_, _, _)
ScanLinks(anchors, links, limit) ==
  IF anchors = <<>> THEN links
  ELSE LET a == Head(anchors)
           links2 == IF HrefOk(a) THEN Append(links, a.href) ELSE links
       IN IF Len(links2) >= limit THEN links2 ELSE ScanLinks(Tail(anchors), links2, limit)

\* faulty variant of DedupDomains: first occurrence per URL, not per netloc
RECURSIVE DedupByUrl(_, _, _, _)
DedupByUrl(links, seen, uniq, limit) ==
  IF links = <<>> THEN uniq
  ELSE LET l == Head(links)
           fresh == l \notin seen
           uniq2 == IF fresh THEN Append(uniq, l) ELSE uniq
       IN IF Len(uniq2) >= limit THEN uniq2
          ELSE DedupByUrl(Tail(links), seen \cup {l}, uniq2, limit)

\* for l in links: keep l when its netloc is new; break once len(uniq) >= limit
RECURSIVE DedupDomains(_, _, _, _)
DedupDomains(links, seen, uniq, limit) ==
  IF links = <<>> THEN uniq
  ELSE LET l == Head(links)
           dom == Netloc(l)
           fresh == dom \notin seen
           uniq2 == IF fresh THEN Append(uniq, l) ELSE uniq
       IN IF Len(uniq2) >= limit THEN uniq2
          ELSE DedupDomains(Tail(links), seen \cup {dom}, uniq2, limit)

ddg_search_urls(resp, limit) ==
  IF ~resp.ok THEN <<>>
  ELSE LET primary == ScanLinks(SelectSeq(resp.page, IsResultAnchor), <<>>, limit)
           links == IF primary = <<>> THEN ScanLinks(resp.page, <<>>, limit) ELSE primary
       IN DedupDomains(links, {}, <<>>, limit)

(***************************************************************************)
(* Page Extractor: _extract_basic_page_info.                               *)
(* A response is [ok |-> FALSE] (the request or the parse raised) or       *)
(* [ok |-> TRUE, title, og_title, meta_desc, og_desc, tel], each field     *)
(* NoTag when the page has no such element, else the element's text /      *)
(* content / href (None when the element carries no such attribute).       *)
(***************************************************************************)
NoTag == <<"NoTag">>

GOOGLE_DOT == <<"g", "o", "o", "g", "l", "e", ".">>

GOOGLE_MAPS == <<"g", "o", "o", "g", "l", "e", ".", "c", "o", "m", "/", "m", "a", "p", "s">>

GOO_GL_MAPS == <<"g", "o", "o", ".", "g", "l", "/", "m", "a", "p", "s">>

TEL == <<"t", "e", "l", ":">>

\* faulty variant of PickDesc: og:description first, the standard meta description second
PickDescOgFirst(page) == IF page.og_desc # NoTag THEN page.og_desc ELSE page.meta_desc

\* soup.find('meta', name=description) or soup.find('meta', property=og:description):
\* a found tag is truthy whatever its content; the value is its content, NoTag for no tag
PickDesc(page) == IF page.meta_desc # NoTag THEN page.meta_desc ELSE page.og_desc

\* desc.get('content')[:300]
CutDesc(content) == Take(content, DescMax)

extract_basic_page_info(link, resp) ==
  LET info0 == [name |-> None, address |-> None, phone |-> None,
                website |-> IF ~Contains(link, GOOGLE_DOT) THEN link ELSE None,
                google_maps_url |-> IF Contains(link, GOOGLE_MAPS) \/ Contains(link, GOO_GL_MAPS)
                                    THEN link ELSE None,
                description |-> None]
  IN IF ~resp.ok THEN info0
     ELSE LET title == IF resp.title # NoTag /\ Truthy(resp.title) THEN Strip(resp.title) ELSE None
              name1 == IF Truthy(title) THEN Take(title, NameMax) ELSE None
              desc == PickDesc(resp)
              description == IF desc # NoTag /\ Truthy(desc) THEN CutDesc(desc) ELSE None
              name2 == IF resp.og_title # NoTag /\ Truthy(resp.og_title)
                       THEN Take(resp.og_title, NameMax) ELSE name1
              phone == IF resp.tel # NoTag THEN Strip(Remove(resp.tel, TEL)) ELSE None
          IN [info0 EXCEPT !.name = name2, !.description = description, !.phone = phone]

(***************************************************************************)
(* The Lead Store: the "coaching" and "note" collections.  A document's    *)
(* _id is its position in the collection.                                  *)
(***************************************************************************)
VARIABLES
  db_ok,        \* db is not None
  coaching,     \* db["coaching"], in insertion order
  note,         \* db["note"], in insertion order
  origin,       \* history: who inserted coaching[i] ("api" or the crawl invocation)
  pc,           \* each crawl invocation's position in crawl_and_ingest
  payload,      \* each invocation's CrawlRequest
  city, exams, base_terms, qi, collected, li, created, seen_keys, info, key, doc,
  response,     \* what the invocation gave its caller
  hits,         \* history: every URL the searches returned, in order
  trail,        \* history: one entry per candidate the ingest loop finished
  overlapped,   \* history: the two invocations were in flight at the same time
  faults,       \* faults injected so far
  api_ops,      \* CRUD requests served so far
  arg, ret      \* input and result of a pure-function call (SpecSearch, SpecExtract)

crawl_vars == <<pc, payload, city, exams, base_terms, qi, collected, li, created,
                seen_keys, info, key, doc, response, hits, trail, overlapped>>

store_vars == <<coaching, note, origin>>

fn_vars == <<arg, ret>>

vars == <<db_ok, store_vars, crawl_vars, faults, api_ops, fn_vars>>

Procs == {1, 2}

(***************************************************************************)
(* The store's filters.                                                    *)
(***************************************************************************)
\* the pattern is one the matcher below covers: it does not start with a quantifier
RegexValid(pat) == ~(pat # <<>> /\ pat[1] = "+")

\* {"$regex": "^" + pat + "$", "$options": "i"} applied to the string s: pat is a
\* regular expression, not a literal. Covered here: a literal character, '.'
\* (any character) and a postfix '+' (one or more of the preceding atom).
RECURSIVE RegexMatch(_, _)
RegexMatch(pat, s) ==
  IF pat = <<>> THEN s = <<>>
  ELSE LET atom == pat[1]
           plus == Len(pat) >= 2 /\ pat[2] = "+"
           hit == s # <<>> /\ (atom = "." \/ LowerChar(atom) = LowerChar(s[1]))
       IN IF plus
          THEN hit /\ (RegexMatch(Drop(pat, 2), Tail(s)) \/ RegexMatch(pat, Tail(s)))
          ELSE hit /\ RegexMatch(Tail(pat), Tail(s))

\* find_one({"website": w}) is not None
ExistsWebsite(w) == \E i \in 1..Len(coaching) : coaching[i].website = w

\* find_one({"name": {"$regex": f"^{name}$", "$options": "i"},
\*           "city": {"$regex": f"^{city}$", "$options": "i"}}) is not None
ExistsNameCity(name, c) ==
  \E i \in 1..Len(coaching) :
     /\ coaching[i].name # None /\ RegexMatch(name, coaching[i].name)
     /\ coaching[i].city # None /\ RegexMatch(c, coaching[i].city)

(***************************************************************************)
(* The web the crawler sees: what the search engine answers to a query     *)
(* and what each site serves.  It is the same for every invocation; a      *)
(* request may still fail (a fault).                                       *)
(***************************************************************************)
SCHEME_HTTP == <<"h", "t", "t", "p", ":", "/", "/">>

SCHEME_HTTPS == <<"h", "t", "t", "p", "s", ":", "/", "/">>

U1 == SCHEME_HTTP \o <<"a", ".", "i", "n", "/">>

U2 == SCHEME_HTTP \o <<"a", ".", "i", "n", "/", "x">>

U3 == SCHEME_HTTPS \o <<"w", "w", "w", ".", "b", ".", "i", "n", "/">>

U4 == SCHEME_HTTP \o <<"c", ".", "i", "n", "/">>

U5 == SCHEME_HTTP \o <<"d", ".", "i", "n", "/">>

\* U1 with its host in upper case: another netloc string
U1_UPPER == SCHEME_HTTP \o <<"A", ".", "I", "N", "/">>

UG == SCHEME_HTTPS \o GOOGLE_MAPS \o <<"/", "x">>

NoPage == [ok |-> TRUE, title |-> NoTag, og_title |-> NoTag, meta_desc |-> NoTag,
           og_desc |-> NoTag, tel |-> NoTag]

WebPage(link) ==
  IF link = U1
    THEN [NoPage EXCEPT !.title = <<" ", "A", "b", " ">>, !.meta_desc = <<"m">>,
                        !.og_desc = <<"o">>, !.tel = TEL \o <<" ", "1", "2">>]
  ELSE IF link = UG
    THEN [NoPage EXCEPT !.title = <<"M", "a", "p", "s">>, !.og_title = <<"A", "+">>]
  ELSE IF link = U3
    THEN [NoPage EXCEPT !.title = <<"a", "B">>, !.og_desc = <<"o">>]
  ELSE IF link = U4
    THEN [NoPage EXCEPT !.title = <<"+", "2", " ", "A">>]
  ELSE NoPage

ResultAnchor(href) == [cls |-> TRUE, href |-> href]

NavAnchor(href) == [cls |-> FALSE, href |-> href]

SearchEngine(q) ==
  IF q.mid = "coaching institute "
    THEN [ok |-> TRUE, page |-> <<NavAnchor(<<"/", "l">>), ResultAnchor(U1), ResultAnchor(U2),
                                  ResultAnchor(U5)>>]
  ELSE IF q.mid = "tuition classes "
    THEN [ok |-> TRUE, page |-> <<ResultAnchor(U1), ResultAnchor(UG), ResultAnchor(U3)>>]
  ELSE IF q.mid = "test prep coaching "
    THEN [ok |-> TRUE, page |-> <<ResultAnchor(U4)>>]
  ELSE [ok |-> TRUE, page |-> <<NavAnchor(None)>>]

FailedSearch == [ok |-> FALSE, page |-> <<>>]

FailedFetch == [NoPage EXCEPT !.ok = FALSE]

(***************************************************************************)
(* crawl_and_ingest.                                                       *)
(***************************************************************************)
Range(s) == {s[i] : i \in 1..Len(s)}

Max(a, b) == IF a >= b THEN a ELSE b

NEET == <<"N", "E", "E", "T">>

\* base_terms: three fixed templates, then two per exam
RECURSIVE ExamTerms(_, _)
ExamTerms(exs, c) ==
  IF exs = <<>> THEN <<>>
  ELSE <<[pre |-> Head(exs), mid |-> " coaching ", city |-> c],
         [pre |-> Head(exs), mid |-> " classes ", city |-> c]>> \o ExamTerms(Tail(exs), c)

BuildQueries(c, exs) ==
  <<[pre |-> <<>>, mid |-> "coaching institute ", city |-> c],
    [pre |-> <<>>, mid |-> "tuition classes ", city |-> c],
    [pre |-> <<>>, mid |-> "test prep coaching ", city |-> c]>> \o ExamTerms(exs, c)

\* faulty variant of MergeUrls: the cap on the list is never applied
RECURSIVE MergeUrlsNoCap(_, _, _)
MergeUrlsNoCap(urls, coll, limit) ==
  IF urls = <<>> THEN coll
  ELSE MergeUrlsNoCap(Tail(urls),
                      IF Head(urls) \notin Range(coll) THEN Append(coll, Head(urls)) ELSE coll,
                      limit)

\* for u in urls: append u if new; break once len(collected) >= limit
RECURSIVE MergeUrls(_, _, _)
MergeUrls(urls, coll, limit) ==
  IF urls = <<>> THEN coll
  ELSE LET coll2 == IF Head(urls) \notin Range(coll) THEN Append(coll, Head(urls)) ELSE coll
       IN IF Len(coll2) >= limit THEN coll2 ELSE MergeUrls(Tail(urls), coll2, limit)

\* faulty variant of DedupKey: the key keeps its case
DedupKeyCased(inf, link) == Take(Or(inf.name, link), NameMax)

\* (info.get("name") or link)[:120].lower()
DedupKey(inf, link) == Lower(Take(Or(inf.name, link), NameMax))

WWW_DOT == <<"w", "w", "w", ".">>

COACHING_SUFFIX == <<" ", "C", "o", "a", "c", "h", "i", "n", "g">>

\* urlparse(link).netloc.replace('www.', '').split('.')[0].title() + " Coaching"
SynthName(link) == Title(FirstLabel(Remove(Netloc(link), WWW_DOT))) \o COACHING_SUFFIX

MakeDoc(inf, link, c, exs) ==
  [name |-> Or(inf.name, SynthName(link)), city |-> c, exams |-> exs, size |-> NoInt,
   address |-> inf.address, phone |-> inf.phone, website |-> inf.website,
   google_maps_url |-> inf.google_maps_url, images |-> <<>>, location |-> None,
   description |-> inf.description, status |-> "neutral", updated_at |-> 0]

InFlight(p) == pc[p] \notin {"idle", "done", "raised"}

Returned(c, n) == [kind |-> "return", status_code |-> 200, created |-> c, scanned |-> n]

HTTPException(code) == [kind |-> "raise", status_code |-> code, created |-> 0, scanned |-> 0]

NoResponse == [kind |-> "none", status_code |-> 0, created |-> 0, scanned |-> 0]

NoInfo == [name |-> None, address |-> None, phone |-> None, website |-> None,
           google_maps_url |-> None, description |-> None]

NoDoc == MakeDoc(NoInfo, <<>>, <<>>, <<>>)

\* the requests the clients send: CrawlRequest(city, exams, limit)
CrawlRequest(c, e, n) == [city |-> c, exams |-> e, limit |-> n]

Requests ==
  {CrawlRequest(<<"p">>, <<>>, MaxLimit),
   CrawlRequest(<<" ", "P">>, <<NEET>>, 2),
   CrawlRequest(<<"p">>, <<>>, 1),
   CrawlRequest(<<"p">>, <<NEET>>, 0),
   CrawlRequest(<<" ">>, <<>>, 1)}

\* lines 253-269: the two preconditions, then the query variants
Start(p) ==
  /\ pc[p] = "idle"
  /\ \A o \in Procs : o < p => pc[o] # "idle"   \* invocations are numbered as they arrive
  /\ \E r \in Requests :
      LET c == r.city
          e == r.exams
      IN
        /\ payload' = [payload EXCEPT ![p] = r]
        /\ IF ~db_ok
             THEN /\ pc' = [pc EXCEPT ![p] = "raised"]
                  /\ response' = [response EXCEPT ![p] = HTTPException(500)]
                  /\ UNCHANGED <<city, exams, base_terms>>
           ELSE IF Strip(c) = <<>>
             THEN /\ pc' = [pc EXCEPT ![p] = "raised"]
                  /\ response' = [response EXCEPT ![p] = HTTPException(400)]
                  /\ UNCHANGED <<city, exams, base_terms>>
           ELSE /\ pc' = [pc EXCEPT ![p] = "search"]
                /\ city' = [city EXCEPT ![p] = Strip(c)]
                /\ exams' = [exams EXCEPT ![p] = e]
                /\ base_terms' = [base_terms EXCEPT ![p] = BuildQueries(Strip(c), e)]
                /\ UNCHANGED response
  /\ overlapped' = (overlapped \/ \E o \in Procs \ {p} : InFlight(o))
  /\ UNCHANGED <<db_ok, store_vars, qi, collected, li, created, seen_keys, info, key, doc,
                 hits, trail, faults, api_ops, fn_vars>>

\* lines 272-283: one pass of "for q in base_terms[:5]", and, when the loop ends,
\* the initialisation of the ingest loop (or line 319 when nothing was collected)
SearchWith(p, resp) ==
  LET queries == Take(base_terms[p], QueryCap)
      urls == ddg_search_urls(resp, Max(MinSearch, payload[p].limit \div 2))
      coll == MergeUrls(urls, collected[p], payload[p].limit)
      last == Len(coll) >= payload[p].limit \/ qi[p] = Len(queries)
  IN /\ collected' = [collected EXCEPT ![p] = coll]
     /\ hits' = [hits EXCEPT ![p] = @ \o urls]
     /\ IF ~last
          THEN /\ qi' = [qi EXCEPT ![p] = @ + 1]
               /\ UNCHANGED <<pc, response>>
        ELSE IF coll = <<>>
          THEN /\ pc' = [pc EXCEPT ![p] = "done"]
               /\ response' = [response EXCEPT ![p] = Returned(0, 0)]
               /\ UNCHANGED qi
        ELSE /\ pc' = [pc EXCEPT ![p] = "extract"]
             /\ UNCHANGED <<qi, response>>
     /\ UNCHANGED <<db_ok, store_vars, payload, city, exams, base_terms, li, created,
                    seen_keys, info, key, doc, trail, overlapped, api_ops, fn_vars>>

Search(p) ==
  /\ pc[p] = "search"
  /\ \/ SearchWith(p, SearchEngine(Take(base_terms[p], QueryCap)[qi[p]])) /\ UNCHANGED faults
     \/ /\ faults < MaxFaults
        /\ faults' = faults + 1
        /\ SearchWith(p, FailedSearch)

\* "continue" and the end of the loop body: the next candidate, or line 319
NextCandidate(p, n, inf, k, outcome) ==
  /\ trail' = [trail EXCEPT ![p] = Append(@, [link |-> collected[p][li[p]], info |-> inf,
                                               key |-> k, outcome |-> outcome])]
  /\ created' = [created EXCEPT ![p] = n]
  /\ li' = [li EXCEPT ![p] = @ + 1]
  /\ IF li[p] + 1 > Len(collected[p])
       THEN /\ pc' = [pc EXCEPT ![p] = "done"]
            /\ response' = [response EXCEPT ![p] = Returned(n, Len(collected[p]))]
     ELSE /\ pc' = [pc EXCEPT ![p] = "extract"]
          /\ UNCHANGED response

\* lines 285-304: fetch the page, the in-batch check, the draft
ExtractWith(p, resp) ==
  LET link == collected[p][li[p]]
      inf == extract_basic_page_info(link, resp)
      k == DedupKey(inf, link)
      d == MakeDoc(inf, link, city[p], exams[p])
  IN /\ info' = [info EXCEPT ![p] = inf]
     /\ key' = [key EXCEPT ![p] = k]
     /\ IF k \in seen_keys[p]
          THEN /\ NextCandidate(p, created[p], inf, k, "seen_key")
               /\ UNCHANGED <<seen_keys, doc>>
        ELSE /\ seen_keys' = [seen_keys EXCEPT ![p] = @ \cup {k}]
             /\ doc' = [doc EXCEPT ![p] = d]
             /\ pc' = [pc EXCEPT ![p] = IF Truthy(d.website) THEN "find_website" ELSE "find_name"]
             /\ UNCHANGED <<trail, created, li, response>>
     /\ UNCHANGED <<db_ok, store_vars, payload, city, exams, base_terms, qi, collected,
                    hits, overlapped, api_ops, fn_vars>>

Extract(p) ==
  /\ pc[p] = "extract"
  /\ \/ ExtractWith(p, WebPage(collected[p][li[p]])) /\ UNCHANGED faults
     \/ /\ faults < MaxFaults
        /\ faults' = faults + 1
        /\ ExtractWith(p, FailedFetch)

\* a store call raises (connection lost, server error, a pattern the server rejects):
\* nothing in crawl_and_ingest catches it around find_one
Unhandled(p) ==
  /\ pc' = [pc EXCEPT ![p] = "raised"]
  /\ response' = [response EXCEPT ![p] = HTTPException(500)]
  /\ UNCHANGED <<db_ok, store_vars, payload, city, exams, base_terms, qi, collected, li,
                 created, seen_keys, info, key, doc, hits, trail, overlapped, api_ops, fn_vars>>

\* lines 306-308
FindWebsite(p) ==
  /\ pc[p] = "find_website"
  /\ \/ /\ UNCHANGED faults
        /\ IF ExistsWebsite(doc[p].website)
             THEN NextCandidate(p, created[p], info[p], key[p], "exists_website")
           ELSE /\ pc' = [pc EXCEPT ![p] = "find_name"]
                /\ UNCHANGED <<trail, created, li, response>>
        /\ UNCHANGED <<db_ok, store_vars, payload, city, exams, base_terms, qi, collected,
                       seen_keys, info, key, doc, hits, overlapped, api_ops, fn_vars>>
     \/ /\ faults < MaxFaults
        /\ faults' = faults + 1
        /\ Unhandled(p)

\* lines 309-312
FindName(p) ==
  /\ pc[p] = "find_name"
  /\ \/ /\ RegexValid(doc[p].name) /\ RegexValid(city[p])
        /\ UNCHANGED faults
        /\ IF ExistsNameCity(doc[p].name, city[p])
             THEN NextCandidate(p, created[p], info[p], key[p], "exists_name")
           ELSE /\ pc' = [pc EXCEPT ![p] = "insert"]
                /\ UNCHANGED <<trail, created, li, response>>
        /\ UNCHANGED <<db_ok, store_vars, payload, city, exams, base_terms, qi, collected,
                       seen_keys, info, key, doc, hits, overlapped, api_ops, fn_vars>>
     \/ /\ ~(RegexValid(doc[p].name) /\ RegexValid(city[p]))   \* the server rejects the pattern
        /\ UNCHANGED faults
        /\ Unhandled(p)
     \/ /\ faults < MaxFaults
        /\ faults' = faults + 1
        /\ Unhandled(p)

\* faulty variant of InsertCount: the attempt is counted though insert_one raised
InsertCountAlways(n, inserted) == n + 1

\* created += 1 runs only when insert_one returned
InsertCount(n, inserted) == IF inserted THEN n + 1 ELSE n

\* lines 313-317
Insert(p) ==
  /\ pc[p] = "insert"
  /\ \/ /\ coaching' = Append(coaching, doc[p])
        /\ origin' = Append(origin, p)
        /\ NextCandidate(p, InsertCount(created[p], TRUE), info[p], key[p], "inserted")
        /\ UNCHANGED faults
     \/ /\ faults < MaxFaults
        /\ faults' = faults + 1
        /\ NextCandidate(p, InsertCount(created[p], FALSE), info[p], key[p], "insert_failed")
        /\ UNCHANGED <<coaching, origin>>
  /\ UNCHANGED <<db_ok, note, payload, city, exams, base_terms, qi, collected,
                 seen_keys, info, key, doc, hits, overlapped, api_ops, fn_vars>>

(***************************************************************************)
(* The CRUD endpoints that write the store.                                *)
(***************************************************************************)
STATUSES == {"liked", "disliked", "neutral"}

\* request bodies of POST /coaching; a field the body leaves out is None / NoInt
Body(name, c, size, website, status) ==
  [name |-> name, city |-> c, exams |-> <<>>, size |-> size, address |-> None, phone |-> None,
   website |-> website, google_maps_url |-> None, images |-> <<>>, location |-> None,
   description |-> None, status |-> status, updated_at |-> 0]

Bodies ==
  <<Body(<<"A", "b">>, <<"p">>, NoInt, None, "neutral"),
    Body(<<"a">>, <<"P">>, {5}, U1, "archived"),
    Body(None, <<"p">>, NoInt, None, "neutral"),
    Body(<<"a", "a">>, None, NoInt, None, "liked"),
    Body(<<"x">>, <<"p">>, {-1}, None, "neutral")>>

\* pydantic's checks of Coaching: name and city are required, size >= 0, status is any string
Validates(b) == b.name # None /\ b.city # None /\ \A n \in b.size : n >= 0

\* create_document(collection, data): insert the validated document
create_document(coll, data) == Append(coll, data)

\* POST /coaching
create_coaching(b) ==
  /\ api_ops < MaxApiOps
  /\ api_ops' = api_ops + 1
  /\ IF db_ok /\ Validates(b)
       THEN /\ coaching' = create_document(coaching, b)
            /\ origin' = Append(origin, 0)
     ELSE UNCHANGED <<coaching, origin>>
  /\ UNCHANGED <<db_ok, note, crawl_vars, faults, fn_vars>>

\* line 127
StatusAccepted(st) == st \in STATUSES

\* POST /coaching/{coaching_id}/status; id 0 stands for a malformed id (to_object_id
\* raises), an id past the collection for a well-formed id of no document
update_status(id, st) ==
  /\ api_ops < MaxApiOps
  /\ api_ops' = api_ops + 1
  /\ IF StatusAccepted(st) /\ id # 0 /\ db_ok /\ id \in 1..Len(coaching)
       THEN coaching' = [coaching EXCEPT ![id].status = st, ![id].updated_at = api_ops + 1]
     ELSE UNCHANGED coaching
  /\ UNCHANGED <<db_ok, note, origin, crawl_vars, faults, fn_vars>>

\* POST /coaching/{coaching_id}/notes
add_note(id) ==
  /\ api_ops < MaxApiOps
  /\ api_ops' = api_ops + 1
  /\ IF db_ok
       THEN note' = create_document(note, [coaching_id |-> id, title |-> None, content |-> None,
                                           stage |-> None, next_action |-> None,
                                           next_action_date |-> None])
     ELSE UNCHANGED note
  /\ UNCHANGED <<db_ok, coaching, origin, crawl_vars, faults, fn_vars>>

(***************************************************************************)
(* The system.  Spec: one crawl request and the CRUD requests on one       *)
(* store.  SpecTwoCrawls: two crawl requests on one store, in any          *)
(* interleaving of their store calls.                                      *)
(***************************************************************************)
NoCall == [done |-> FALSE]

Idle ==
  /\ coaching = <<>> /\ note = <<>> /\ origin = <<>>
  /\ pc = [p \in Procs |-> "idle"]
  /\ payload = [p \in Procs |-> CrawlRequest(<<>>, <<>>, 0)]
  /\ city = [p \in Procs |-> <<>>]
  /\ exams = [p \in Procs |-> <<>>]
  /\ base_terms = [p \in Procs |-> <<>>]
  /\ qi = [p \in Procs |-> 1]
  /\ collected = [p \in Procs |-> <<>>]
  /\ li = [p \in Procs |-> 1]
  /\ created = [p \in Procs |-> 0]
  /\ seen_keys = [p \in Procs |-> {}]
  /\ info = [p \in Procs |-> NoInfo]
  /\ key = [p \in Procs |-> <<>>]
  /\ doc = [p \in Procs |-> NoDoc]
  /\ response = [p \in Procs |-> NoResponse]
  /\ hits = [p \in Procs |-> <<>>]
  /\ trail = [p \in Procs |-> <<>>]
  /\ overlapped = FALSE
  /\ faults = 0
  /\ api_ops = 0

Init ==
  /\ db_ok \in BOOLEAN
  /\ Idle
  /\ arg = NoCall /\ ret = NoCall

Crawl(p) ==
  \/ Start(p)
  \/ Search(p)
  \/ Extract(p)
  \/ FindWebsite(p)
  \/ FindName(p)
  \/ Insert(p)

Next ==
  \/ Crawl(1)
  \/ \E k \in 1..Len(Bodies) : create_coaching(Bodies[k])
  \/ \E id \in 0..(Len(coaching) + 1), st \in {"liked", "archived"} : update_status(id, st)
  \/ \E id \in 1..(Len(coaching) + 1) : add_note(id)

Spec == Init /\ [][Next]_vars

NextTwoCrawls == \E p \in Procs : Crawl(p)

SpecTwoCrawls == Init /\ [][NextTwoCrawls]_vars

(***************************************************************************)
(* The two pure functions on generated inputs.                             *)
(***************************************************************************)
A_IN == SCHEME_HTTP \o <<"a", ".", "i", "n">>

Anchors ==
  {ResultAnchor(U1), ResultAnchor(U2), ResultAnchor(U3), ResultAnchor(U1_UPPER),
   ResultAnchor(<<"/", "l">>), NavAnchor(A_IN), NavAnchor(UG), NavAnchor(None)}

Pages == UNION {[1..n -> Anchors] : n \in 0..MaxAnchors}

SearchCalls ==
  {[resp |-> r, limit |-> n] :
     r \in {FailedSearch} \cup {[ok |-> TRUE, page |-> pg] : pg \in Pages},
     n \in 0..MaxAnchors}

InitSearch ==
  /\ db_ok = TRUE
  /\ Idle
  /\ arg \in SearchCalls
  /\ ret = NoCall

CallSearch ==
  /\ ~ret.done
  /\ ret' = [done |-> TRUE, value |-> ddg_search_urls(arg.resp, arg.limit)]
  /\ UNCHANGED <<db_ok, store_vars, crawl_vars, faults, api_ops, arg>>

SpecSearch == InitSearch /\ [][CallSearch]_vars

GOO_GL == SCHEME_HTTPS \o GOO_GL_MAPS

ExtractLinks == {U1, UG, GOO_GL}

FetchedPages ==
  {[ok |-> TRUE, title |-> t, og_title |-> ot, meta_desc |-> md, og_desc |-> od, tel |-> tl] :
     t \in {NoTag, <<" ">>, <<" ", "T", " ">>, Rep("t", NameMax + 1)},
     ot \in {NoTag, <<>>, <<"O">>},
     md \in {NoTag, None, <<"m">>, Rep("m", DescMax + 100)},
     od \in {NoTag, <<"o">>, Rep("o", DescMax + 1)},
     tl \in {NoTag, TEL \o <<" ", "1", "2", " ">>}}

ExtractCalls == {[link |-> l, resp |-> r] : l \in ExtractLinks, r \in {FailedFetch} \cup FetchedPages}

InitExtract ==
  /\ db_ok = TRUE
  /\ Idle
  /\ arg \in ExtractCalls
  /\ ret = NoCall

CallExtract ==
  /\ ~ret.done
  /\ ret' = [done |-> TRUE, value |-> extract_basic_page_info(arg.link, arg.resp)]
  /\ UNCHANGED <<db_ok, store_vars, crawl_vars, faults, api_ops, arg>>

SpecExtract == InitExtract /\ [][CallExtract]_vars

(***************************************************************************)
(* Properties.                                                             *)
(***************************************************************************)
Done(p) == pc[p] = "done"

Infos(p) == [i \in 1..Len(trail[p]) |-> trail[p][i].info]

Outcomes(p) == {trail[p][i].outcome : i \in 1..Len(trail[p])}

SameText(a, b) == Lower(a) = Lower(b)

\* C1 (as claimed): Coordinator idempotence. Two crawl_and_ingest runs, one after
\* the other, with the same request, the same search results and the same extracted
\* pages, every insert of the first run having taken effect: the second run reports
\* created = 0.
C1_SecondRunCreatesNothing ==
  (/\ Done(1) /\ Done(2) /\ ~overlapped
   /\ payload[1] = payload[2]
   /\ hits[1] = hits[2] /\ collected[1] = collected[2]
   /\ Infos(1) = Infos(2)
   /\ "insert_failed" \notin Outcomes(1))
  => response[2].created = 0

\* C2 (as claimed): the store dedup rule. A candidate that reached the store check is
\* skipped exactly when a record has the same website, or a record's name and city
\* equal the draft's name and the given city as strings, case aside; checked on every
\* step in which a store lookup answers.
C2_StoreDedupIsExactMatch ==
  [][\A p \in Procs :
       /\ (pc[p] = "find_website" /\ pc'[p] \notin {"find_website", "raised"})
            => ((pc'[p] # "find_name")
                  <=> \E i \in 1..Len(coaching) : coaching[i].website = doc[p].website)
       /\ (pc[p] = "find_name" /\ pc'[p] \notin {"find_name", "raised"})
            => ((pc'[p] # "insert")
                  <=> \E i \in 1..Len(coaching) :
                         /\ SameText(coaching[i].name, doc[p].name)
                         /\ SameText(coaching[i].city, city[p]))]_vars

\* C3 (as claimed): crawl_and_ingest raises only for the unavailable store (500) and
\* for the empty city (400), both before any search; any other run returns.
C3_RaisesOnlyForPreconditions ==
  \A p \in Procs :
     pc[p] = "raised" =>
       /\ \/ response[p].status_code = 500 /\ ~db_ok
          \/ response[p].status_code = 400 /\ db_ok /\ Strip(payload[p].city) = <<>>
       /\ hits[p] = <<>> /\ qi[p] = 1 /\ trail[p] = <<>>

\* the URLs of s, each at its first occurrence
RECURSIVE FirstSeen(_)
FirstSeen(s) ==
  IF s = <<>> THEN <<>>
  ELSE LET r == FirstSeen(SubSeq(s, 1, Len(s) - 1))
       IN IF s[Len(s)] \in Range(r) THEN r ELSE Append(r, s[Len(s)])

\* C4: Coordinator short-circuit. For a positive limit the merged candidate list has
\* no URL twice, is the first-seen order of the URLs the searches returned, never
\* holds more than limit entries; a further query is issued only while the list is
\* below limit; and scanned is the length of the list.
C4_ShortCircuit ==
  \A p \in Procs :
     payload[p].limit > 0 =>
       /\ Len(collected[p]) <= payload[p].limit
       /\ \A i, j \in 1..Len(collected[p]) : i # j => collected[p][i] # collected[p][j]
       /\ collected[p] = Take(FirstSeen(hits[p]), payload[p].limit)
       /\ pc[p] = "search" => Len(collected[p]) < payload[p].limit
       /\ Done(p) => response[p].scanned = Len(collected[p])

\* C4, its case: a run with limit 3 that stopped in the middle of its second query's
\* results: a URL returned twice was kept once, a later URL was left out, and the
\* third query was never sent
C4_Witness ==
  \E p \in Procs :
     /\ Done(p) /\ payload[p].limit = 3
     /\ hits[p] = <<U1, U5, U1, UG, U3>>
     /\ collected[p] = <<U1, U5, UG>>
     /\ qi[p] = 2 /\ Len(Take(base_terms[p], QueryCap)) > 2
     /\ response[p].scanned = 3

SameLead(a, b) ==
  \/ a.website # None /\ a.website = b.website
  \/ SameText(a.name, b.name) /\ SameText(a.city, b.city)

CrawlDuplicates ==
  \E i, j \in 1..Len(coaching) :
     i # j /\ origin[i] # 0 /\ origin[j] # 0 /\ SameLead(coaching[i], coaching[j])

\* C5 (as claimed, second half): with the two invocations run strictly one after
\* the other, no two leads the crawls inserted share a website or a name and city.
C5_SequentialRunsNeverDuplicate == ~overlapped => ~CrawlDuplicates

\* C5, first half: two invocations in flight together both passed the store check
\* for the same website and both inserted it
C5_RaceWitness ==
  /\ overlapped
  /\ \E i, j \in 1..Len(coaching) :
        /\ origin[i] = 1 /\ origin[j] = 2
        /\ coaching[i].website # None /\ coaching[i].website = coaching[j].website

CrawlStep(p) == <<pc[p], qi[p], li[p]>>' # <<pc[p], qi[p], li[p]>>

\* C6: the crawl pipeline only adds leads. Every step of crawl_and_ingest leaves the
\* records already in the store in place and unchanged, leaves the notes unchanged,
\* and adds as many leads as it adds to created; the run reports that count.
C6_CrawlOnlyAdds ==
  /\ [][\A p \in Procs :
          CrawlStep(p) =>
            /\ Len(coaching') >= Len(coaching)
            /\ SubSeq(coaching', 1, Len(coaching)) = coaching
            /\ note' = note
            /\ Len(coaching') - Len(coaching) = created'[p] - created[p]]_vars
  /\ [](\A p \in Procs : Done(p) => response[p].created = created[p])

\* C6, its case: a finished run that counted an insert and one that failed, on a
\* store that held a lead before it inserted and holds a note
C6_Witness ==
  /\ Done(1) /\ response[1].created >= 1
  /\ "insert_failed" \in Outcomes(1)
  /\ Len(coaching) >= 2 /\ origin[1] = 0 /\ origin[Len(coaching)] = 1
  /\ note # <<>>

\* C7 (as claimed): every lead in the store has a name and a city, and a status that
\* is one of neutral, liked, disliked.
C7_LeadInvariant ==
  \A i \in 1..Len(coaching) :
     /\ coaching[i].name # None
     /\ coaching[i].city # None
     /\ coaching[i].status \in STATUSES

KeyOf(e) == Lower(Take(IF Truthy(e.info.name) THEN e.info.name ELSE e.link, NameMax))

\* C8: in-batch dedup. Candidates are finished in collected order; a candidate's key
\* is its extracted name, else its URL, cut to 120 characters and lower-cased; it is
\* skipped as seen, before any store call, exactly when an earlier candidate of the
\* batch had the same key; so no two candidates that went on to the store share a key.
C8_InBatchDedup ==
  \A p \in Procs :
     /\ \A i \in 1..Len(trail[p]) :
          /\ trail[p][i].link = collected[p][i]
          /\ trail[p][i].key = KeyOf(trail[p][i])
          /\ Len(trail[p][i].key) <= NameMax
          /\ (trail[p][i].outcome = "seen_key")
               <=> \E j \in 1..(i - 1) : KeyOf(trail[p][j]) = KeyOf(trail[p][i])
     /\ pc[p] \in {"find_website", "find_name", "insert"} =>
          /\ key[p] = KeyOf([info |-> info[p], link |-> collected[p][li[p]]])
          /\ \A j \in 1..Len(trail[p]) : KeyOf(trail[p][j]) # key[p]

\* C8, its case: a later candidate's name differs from the first's only in case, and
\* it was skipped as seen while the first was inserted
C8_Witness ==
  \E p \in Procs :
     \E i \in 2..Len(trail[p]) :
        /\ trail[p][1].outcome = "inserted" /\ trail[p][i].outcome = "seen_key"
        /\ trail[p][1].info.name # None /\ trail[p][i].info.name # None
        /\ trail[p][1].info.name # trail[p][i].info.name
        /\ trail[p][1].key = trail[p][i].key

\* the links _ddg_search_urls considers: the absolute links of the result anchors,
\* or of every anchor when no result anchor has one, in page order
Hrefs(anchors) == LET ok == SelectSeq(anchors, HrefOk) IN [i \in 1..Len(ok) |-> ok[i].href]

Considered(resp) ==
  IF ~resp.ok THEN <<>>
  ELSE IF Hrefs(SelectSeq(resp.page, IsResultAnchor)) # <<>>
    THEN Hrefs(SelectSeq(resp.page, IsResultAnchor))
  ELSE Hrefs(resp.page)

FirstOfDomain(links, dom) ==
  CHOOSE k \in 1..Len(links) :
     Netloc(links[k]) = dom /\ \A j \in 1..(k - 1) : Netloc(links[j]) # dom

\* C9: Search Provider result shape. For a positive limit the result has at most
\* limit URLs, no two with the same netloc, each the first considered link of its
\* netloc, in page order; a failed request gives the empty list.
C9_SearchShape ==
  (ret.done /\ arg.limit > 0) =>
    LET out == ret.value
        links == Considered(arg.resp)
    IN /\ Len(out) <= arg.limit
       /\ \A i, j \in 1..Len(out) : i # j => Netloc(out[i]) # Netloc(out[j])
       /\ \A i \in 1..Len(out) :
            /\ \E k \in 1..Len(links) : links[k] = out[i]
            /\ links[FirstOfDomain(links, Netloc(out[i]))] = out[i]
       /\ \A i, j \in 1..Len(out) :
            i < j => FirstOfDomain(links, Netloc(out[i])) < FirstOfDomain(links, Netloc(out[j]))
       /\ ~arg.resp.ok => out = <<>>

\* C9, its case: three result links, the second on the first one's domain, and a
\* result that keeps the first and the third
C9_Witness ==
  /\ ret.done /\ arg.resp.ok /\ arg.limit = 3
  /\ Considered(arg.resp) = <<U1, U2, U3>>
  /\ ret.value = <<U1, U3>>

BothDescriptions(pg) ==
  pg.ok /\ pg.meta_desc # NoTag /\ Truthy(pg.meta_desc) /\ pg.og_desc # NoTag /\ Truthy(pg.og_desc)

\* C10 (as claimed): with both descriptions on the page the og:description one is
\* returned, cut to 300 characters.
C10_OgDescriptionPreferred ==
  (ret.done /\ BothDescriptions(arg.resp)) =>
    ret.value.description = Take(arg.resp.og_desc, DescMax)

\* C10 (amended): the standard meta description tag decides when the page has one:
\* its content cut to 300 characters, or no description when it has no content; the
\* og:description content, cut to 300 characters, is used only when the page has no
\* standard meta description tag.
C10_MetaDescriptionPreferred ==
  ret.done =>
    LET pg == arg.resp
        d == ret.value.description
    IN /\ ~pg.ok => d = None
       /\ (pg.ok /\ pg.meta_desc # NoTag) =>
            d = IF Truthy(pg.meta_desc) THEN Take(pg.meta_desc, DescMax) ELSE None
       /\ (pg.ok /\ pg.meta_desc = NoTag /\ pg.og_desc # NoTag) =>
            d = IF Truthy(pg.og_desc) THEN Take(pg.og_desc, DescMax) ELSE None
       /\ (pg.ok /\ pg.meta_desc = NoTag /\ pg.og_desc = NoTag) => d = None
       /\ d # None => Len(d) <= DescMax

\* C10, its case: both descriptions present, the standard one longer than 300
\* characters, and the result its first 300 characters
C10_Witness ==
  /\ ret.done /\ BothDescriptions(arg.resp)
  /\ Len(arg.resp.meta_desc) > DescMax
  /\ ret.value.description = Rep("m", DescMax)

====
